---- MODULE Spec2Model ----
(***************************************************************************)
(* Model of queue-controller.py: a watcher thread that mirrors the         *)
(* cluster's PipelineRuns into local_cache and revokes over-limit runs,    *)
(* and a manager thread that admits queued runs from the cache, together   *)
(* with the orchestrator (object store + watch event stream) they talk to. *)
(*                                                                         *)
(* Strings the code takes apart (names, namespaces, keys) are sequences of *)
(* character codes; a PipelineRun is a record                              *)
(*   [ns, name, ct, specStatus, label, conditions]                         *)
(* ct = metadata.creationTimestamp, specStatus = spec.status ("None" when  *)
(* absent), label = labels[MANAGED_LABEL_KEY] ("" when the key is absent), *)
(* conditions = the status of each entry of status.conditions.             *)
(***************************************************************************)
EXTENDS Integers, Sequences, FiniteSets, TLC

\* ------------------------------------------------------------------ bounds
MaxSubmit == 2
MaxTime == 1
MaxFault == 1
MaxLimit == 2
MaxReplay == 1

\* --------------------------------------------------------- program constants
DEFAULT_LIMIT == 10
NameCut == 40
MANAGED_LABEL_KEY == "queue.tekton.dev/managed"
MANAGED_LABEL_VAL == "yes"
Pending == "PipelineRunPending"

\* "-cicd", the fixed tail of NAMESPACE_PATTERN = "*-cicd"
PatternTail == <<45, 99, 105, 99, 100>>
\* namespaces of the model: "a-cicd" (managed) and "dev" (not managed)
Namespaces == { <<97, 45, 99, 105, 99, 100>>, <<100, 101, 118>> }
\* names users give their runs: "a", "b"
BaseNames == { <<97>>, <<98>> }

VARIABLES
  cluster,          \* orchestrator: the set of PipelineRun objects that exist
  events,           \* watch stream: events emitted and not yet received
  limit,            \* spec.maxPipelines of the globallimits resource
  now,              \* wall clock, seconds
  local_cache,      \* the cache, a dict in insertion order: sequence of objects
  resource_version, \* watcher: "None" or "set"
  wpc,              \* watcher: position in watcher_loop
  wData,            \* watcher: items of the list response being loaded
  wKey,             \* watcher: key of the event object being handled
  wLimit,           \* watcher: local variable limit
  wRunning,         \* watcher: local variable running
  mpc,              \* manager: position in manager_loop
  mLimit,           \* manager: local variable limit
  running,          \* manager: local variable running
  slots,            \* manager: local variable slots
  to_run,           \* manager: the targets of to_run from the current one on
  submitted,        \* number of runs users have submitted
  faults,           \* number of disturbances so far: failed calls, broken
                    \* watch streams, rewrites of an object by other parties
  wNew,             \* watcher: new_obj of recreate_as_pending, once it is built
  wPauseErr,        \* history: how the pause patch of this enforcement failed
  tick,             \* history: the manager's current tick
  maxAdmitCt,       \* history: latest creationTimestamp admitted so far
  admitted,         \* history: keys the manager admitted and projected
  pausedInPlace,    \* history: keys Stage 1 paused
  wLast,            \* history: how the watcher's last stream or Stage 2 ended
  replays,          \* number of events the stream has delivered a second time
  rpc,              \* recreate_as_pending on its own: position ("off" elsewhere)
  original_obj,     \* recreate_as_pending on its own: the argument
  new_obj           \* recreate_as_pending on its own: the object submitted

wvars == <<resource_version, wpc, wData, wKey, wLimit, wRunning, wNew, wPauseErr, wLast>>
mvars == <<mpc, mLimit, running, slots, to_run, tick, maxAdmitCt, admitted>>
envvars == <<limit, now, submitted>>
xvars == <<replays, rpc, original_obj, new_obj>>
vars == <<cluster, events, local_cache, faults, pausedInPlace,
          wvars, mvars, envvars, xvars>>

\* ----------------------------------------------------------------- helpers
Min(a, b) == IF a < b THEN a ELSE b

\* s[:n]
Take(s, n) == SubSeq(s, 1, Min(Len(s), n))

\* str(n) for n >= 0, as character codes
RECURSIVE Digits(_)
Digits(n) == IF n < 10 THEN <<48 + n>> ELSE Digits(n \div 10) \o <<48 + (n % 10)>>

\* string order: a < b
RECURSIVE LexLess(_, _)
LexLess(a, b) ==
  IF b = <<>> THEN FALSE
  ELSE IF a = <<>> THEN TRUE
  ELSE IF Head(a) # Head(b) THEN Head(a) < Head(b)
  ELSE LexLess(Tail(a), Tail(b))

\* f"{ns}/{name}"
MakeKey(ns, name) == ns \o <<47>> \o name
KeyOf(o) == MakeKey(o.ns, o.name)

\* fnmatch.fnmatch(namespace, "*-cicd")
is_target_namespace(ns) ==
  /\ Len(ns) >= Len(PatternTail)
  /\ SubSeq(ns, Len(ns) - Len(PatternTail) + 1, Len(ns)) = PatternTail

\* conditions and conditions[0]['status'] != 'Unknown'
IsTerminal(o) == o.conditions # <<>> /\ o.conditions[1] # "Unknown"

\* ------------------------------------------------------------ local_cache
\* position of key in the dict, 0 when absent
RECURSIVE CacheIndexFrom(_, _, _)
CacheIndexFrom(c, key, i) ==
  IF i > Len(c) THEN 0
  ELSE IF KeyOf(c[i]) = key THEN i
  ELSE CacheIndexFrom(c, key, i + 1)

CacheIndex(c, key) == CacheIndexFrom(c, key, 1)

CacheHas(c, key) == CacheIndex(c, key) # 0

CacheGet(c, key) == c[CacheIndex(c, key)]

\* del local_cache[key]
CacheDel(c, key) ==
  LET i == CacheIndex(c, key)
  IN  IF i = 0 THEN c ELSE SubSeq(c, 1, i - 1) \o SubSeq(c, i + 1, Len(c))

\* local_cache[key] = obj: an existing key keeps its place, a new one goes last
CachePut(c, obj) ==
  LET i == CacheIndex(c, KeyOf(obj))
  IN  IF i = 0 THEN Append(c, obj) ELSE [c EXCEPT ![i] = obj]

\* mutant: a DELETED event leaves the entry in place
update_cache_NoDelete(c, event_type, obj) ==
  IF event_type = "DELETED" THEN c ELSE CachePut(c, obj)

update_cache(c, event_type, obj) ==
  IF event_type = "DELETED" THEN CacheDel(c, KeyOf(obj)) ELSE CachePut(c, obj)

\* the loop body's first two filters: managed namespace, not finished
IsCounted(o) == is_target_namespace(o.ns) /\ ~IsTerminal(o)

\* running_cnt += 1
IsRunning(o) == IsCounted(o) /\ o.specStatus # Pending

\* mutant: the label test of the pending branch left out
IsQueued_AnyPaused(o) == IsCounted(o) /\ o.specStatus = Pending

\* managed_pending_list.append(item)
IsQueued(o) == IsCounted(o) /\ o.specStatus = Pending /\ o.label = MANAGED_LABEL_VAL

\* list.sort(key=creationTimestamp): stable, ascending
RECURSIVE InsertByCt(_, _)
InsertByCt(s, o) ==
  IF s = <<>> THEN <<o>>
  ELSE IF s[Len(s)].ct <= o.ct THEN Append(s, o)
  ELSE Append(InsertByCt(SubSeq(s, 1, Len(s) - 1), o), s[Len(s)])

RECURSIVE SortByCtFrom(_, _, _)
SortByCtFrom(s, i, acc) ==
  IF i > Len(s) THEN acc ELSE SortByCtFrom(s, i + 1, InsertByCt(acc, s[i]))

\* mutant: the sort left out, the list stays in dict order
SortByCt_Unsorted(s) == s

SortByCt(s) == SortByCtFrom(s, 1, <<>>)

RunningCnt(c) == Cardinality({i \in 1..Len(c) : IsRunning(c[i])})

PendingList(c) == SortByCt(SelectSeq(c, IsQueued))

\* running < limit and pending
ManagerAdmits(r, lim, pending) == r < lim /\ pending # <<>>

\* mutant: the slice takes one target too many
ToRun_OneMore(pending, n) == Take(pending, n + 1)

\* pending[:slots]
ToRun(pending, n) == Take(pending, n)

\* mutant: the gate fires at the limit already
GateFires_AtLimit(r, lim) == r >= lim

\* running > limit
GateFires(r, lim) == r > lim

\* mutant: the name is not cut before the suffix is added
RecreateName_NoCut(name, t) == name \o <<45, 113>> \o Digits(t)

\* the name recreate_as_pending gives the copy: f"{name[:40]}-q{int(time.time())}"
RecreateName(name, t) == Take(name, NameCut) \o <<45, 113>> \o Digits(t)

\* new_obj as recreate_as_pending builds it, t being int(time.time()) at line
\* 176: creationTimestamp and status are deleted from the copy
RecreateObj(o, t) ==
  [ns |-> o.ns, name |-> RecreateName(o.name, t),
   specStatus |-> Pending, label |-> MANAGED_LABEL_VAL]

\* the object the server stores for a create request it serves at time t: it
\* sets creationTimestamp, and the status is empty
Served(new, t) ==
  [ns |-> new.ns, name |-> new.name, ct |-> t, specStatus |-> new.specStatus,
   label |-> new.label, conditions |-> <<>>]

\* a dict as a function on its keys: key in d, del d[key], d[key] = value
HasKey(d, key) == key \in DOMAIN d
DelKey(d, key) == [x \in DOMAIN d \ {key} |-> d[x]]
SetKey(d, key, value) == [x \in DOMAIN d \cup {key} |-> IF x = key THEN value ELSE d[x]]
EmptyDict == [x \in {} |-> x]

\* the metadata keys recreate_as_pending deletes from the copy
StrippedKeys == {"resourceVersion", "uid", "creationTimestamp", "ownerReferences",
                 "generation"}

RECURSIVE DelKeys(_, _)
DelKeys(d, keys) ==
  IF keys = {} THEN d
  ELSE LET key == CHOOSE x \in keys : TRUE
       IN  DelKeys(IF HasKey(d, key) THEN DelKey(d, key) ELSE d, keys \ {key})

\* new_obj of recreate_as_pending, from the deepcopy to the new name, on an
\* object with all its parts: a dict with metadata and maybe spec and status
NewObj(obj, t) ==
  LET metadata1 == DelKeys(obj.metadata, StrippedKeys)
      copy1 == IF HasKey(obj, "status") THEN DelKey(obj, "status") ELSE obj
      spec1 == IF HasKey(copy1, "spec") THEN copy1.spec ELSE EmptyDict
      spec2 == SetKey(spec1, "status", Pending)
      labels1 == IF HasKey(metadata1, "labels") THEN metadata1.labels ELSE EmptyDict
      labels2 == SetKey(labels1, MANAGED_LABEL_KEY, MANAGED_LABEL_VAL)
      metadata2 == SetKey(metadata1, "labels", labels2)
      metadata3 == SetKey(metadata2, "name", RecreateName(obj.metadata.name, t))
  IN  SetKey(SetKey(copy1, "spec", spec2), "metadata", metadata3)

\* ------------------------------------------------------------ orchestrator
ApiHas(key) == \E o \in cluster : KeyOf(o) = key

ApiGet(key) == CHOOSE o \in cluster : KeyOf(o) = key

\* the items of a cluster-wide list, in the order of their storage keys
RECURSIVE ListItems(_)
ListItems(S) ==
  IF S = {} THEN <<>>
  ELSE LET first == CHOOSE o \in S : \A p \in S \ {o} : LexLess(KeyOf(o), KeyOf(p))
       IN  <<first>> \o ListItems(S \ {first})

Event(type, obj) == [type |-> type, object |-> obj]

\* a call on key may fail for want of the object, or (within MaxFault) for any reason
CallOutcomes(key) ==
  IF ~ApiHas(key) THEN {"error"}
  ELSE {"ok"} \cup (IF faults < MaxFault THEN {"error"} ELSE {})

\* a pause may also be refused by the orchestrator: "state transition rejected"
PauseOutcomes(key) ==
  CallOutcomes(key) \cup (IF ApiHas(key) /\ faults < MaxFault THEN {"rejected"} ELSE {})

Spent(outcome, key) == IF outcome # "ok" /\ ApiHas(key) THEN faults + 1 ELSE faults

\* a successful patch of the object at key to new: MODIFIED unless nothing changed
Patched(key, new) ==
  /\ cluster' = (cluster \ {ApiGet(key)}) \cup {new}
  /\ events' = IF new = ApiGet(key) THEN events ELSE Append(events, Event("MODIFIED", new))

\* get_limit_from_crd: the resource's value, or DEFAULT_LIMIT when the read faults
LimitReads == {"ok"} \cup (IF faults < MaxFault THEN {"error"} ELSE {})
get_limit_from_crd(outcome) == IF outcome = "ok" THEN limit ELSE DEFAULT_LIMIT

\* ------------------------------------------------------------------- Init
NoTick == [r0 |-> 0, ok |-> 0, tried |-> 0, lastCt |-> -1, queued |-> 0]

\* the value of wNew while no copy is built
NoCopy == [name |-> <<>>]

\* the value of original_obj and new_obj where recreate_as_pending is not called
NoObject == [metadata |-> [namespace |-> <<>>, name |-> <<>>]]

Init ==
  /\ cluster = {}
  /\ events = <<>>
  /\ limit \in 0..MaxLimit
  /\ now = 0
  /\ local_cache = <<>>
  /\ resource_version = "None"
  /\ wpc = "list"
  /\ wData = <<>>
  /\ wKey = <<>>
  /\ wLimit = 0
  /\ wRunning = 0
  /\ mpc = "idle"
  /\ mLimit = 0
  /\ running = 0
  /\ slots = 0
  /\ to_run = <<>>
  /\ submitted = 0
  /\ faults = 0
  /\ wPauseErr = "none"
  /\ wNew = NoCopy
  /\ tick = NoTick
  /\ maxAdmitCt = -1
  /\ admitted = {}
  /\ pausedInPlace = {}
  /\ wLast = "none"
  /\ replays = 0
  /\ rpc = "off"
  /\ original_obj = NoObject
  /\ new_obj = NoObject

\* ------------------------------------------------------------ environment
\* what a user may submit: a run to start, a run for the queue, a paused template
SubmitKinds == { <<"None", "">>, <<Pending, MANAGED_LABEL_VAL>>, <<Pending, "">> }

\* the submissions of the model: any kind under either name in the managed
\* namespace, and a run to start in the other one
Submissions ==
  {s \in Namespaces \X BaseNames \X SubmitKinds :
     is_target_namespace(s[1]) \/ (s[2] = <<97>> /\ s[3] = <<"None", "">>)}

\* a user creates a PipelineRun
EnvSubmit ==
  /\ submitted < MaxSubmit
  /\ \E s \in Submissions :
       /\ ~ApiHas(MakeKey(s[1], s[2]))
       /\ LET o == [ns |-> s[1], name |-> s[2], ct |-> now, specStatus |-> s[3][1],
                    label |-> s[3][2],
                    conditions |-> IF s[3][1] = Pending THEN <<>> ELSE <<"Unknown">>]
          IN  /\ cluster' = cluster \cup {o}
              /\ events' = Append(events, Event("ADDED", o))
  /\ submitted' = submitted + 1
  /\ UNCHANGED <<local_cache, faults, pausedInPlace, wvars, mvars, limit, now, xvars>>

\* a running run finishes: the orchestrator sets its first condition to True
EnvFinish ==
  /\ \E o \in cluster :
       /\ ~IsTerminal(o)
       /\ o.specStatus # Pending
       /\ Patched(KeyOf(o), [o EXCEPT !.conditions = <<"True">>])
  /\ UNCHANGED <<local_cache, faults, pausedInPlace, wvars, mvars, envvars, xvars>>

\* the orchestrator rewrites an object without changing what the controller reads
EnvTouch ==
  /\ faults < MaxFault
  /\ \E o \in cluster : events' = Append(events, Event("MODIFIED", o))
  /\ faults' = faults + 1
  /\ UNCHANGED <<cluster, local_cache, pausedInPlace, wvars, mvars, envvars, xvars>>

\* the watch stream delivers an ADDED event a second time, somewhere behind the
\* first delivery
EnvReplay ==
  /\ replays < MaxReplay
  /\ events # <<>>
  /\ Head(events).type = "ADDED"
  /\ \E j \in 1..Len(events) :
       events' = SubSeq(events, 1, j) \o <<Head(events)>> \o SubSeq(events, j + 1, Len(events))
  /\ replays' = replays + 1
  /\ UNCHANGED <<cluster, local_cache, faults, pausedInPlace, wvars, mvars, envvars,
                 rpc, original_obj, new_obj>>

\* a second passes
ClockTick ==
  /\ now < MaxTime
  /\ now' = now + 1
  /\ UNCHANGED <<cluster, events, local_cache, faults, pausedInPlace, wvars, mvars,
                 limit, submitted, xvars>>

\* ---------------------------------------------------------------- watcher
WatcherIdle ==
  /\ wpc' = "stream"
  /\ wKey' = <<>>
  /\ wLimit' = 0
  /\ wRunning' = 0
  /\ wPauseErr' = "none"
  /\ wNew' = NoCopy

\* api.list_cluster_custom_object: the watch that follows starts at the list's
\* resourceVersion, so events emitted before the list are not received
WList ==
  /\ wpc = "list"
  /\ wData' = ListItems(cluster)
  /\ resource_version' = "set"
  /\ events' = <<>>
  /\ wpc' = "rebuild"
  /\ UNCHANGED <<cluster, local_cache, faults, pausedInPlace, wKey, wLimit, wRunning,
                 wPauseErr, wNew, wLast, mvars, envvars, xvars>>

\* mutant: the loop skips the finished items of the list
RebuiltCache_SkipFinished(items) == SelectSeq(items, LAMBDA o : ~IsTerminal(o))

\* local_cache.clear() and the loop that stores every listed item, under the lock
RebuiltCache(items) == items

WRebuild ==
  /\ wpc = "rebuild"
  /\ local_cache' = RebuiltCache(wData)
  /\ wData' = <<>>
  /\ wpc' = "stream"
  /\ UNCHANGED <<cluster, events, faults, pausedInPlace, resource_version, wKey,
                 wLimit, wRunning, wPauseErr, wNew, wLast, mvars, envvars, xvars>>

\* for event in stream: resource_version, update_cache, and the test of etype
WEvent ==
  /\ wpc = "stream"
  /\ events # <<>>
  /\ LET e == Head(events)
     IN  /\ events' = Tail(events)
         /\ resource_version' = "set"
         /\ local_cache' = update_cache(local_cache, e.type, e.object)
         /\ IF e.type = "ADDED" \/ e.type = "MODIFIED"
            THEN wpc' = "gate" /\ wKey' = KeyOf(e.object)
            ELSE wpc' = "stream" /\ wKey' = <<>>
  /\ wLast' = "none"
  /\ UNCHANGED <<cluster, faults, pausedInPlace, wData, wLimit, wRunning, wPauseErr, wNew,
                 mvars, envvars, xvars>>

\* mutant: the gate without its namespace test
GateSkips_AnyNamespace(obj) == IsTerminal(obj) \/ obj.specStatus = Pending

\* the three continue statements of the gate
GateSkips(obj) ==
  \/ ~is_target_namespace(obj.ns)
  \/ IsTerminal(obj)
  \/ obj.specStatus = Pending

\* MANAGED_LABEL_KEY not in obj['metadata'].get('labels', {})
NeedsLabel(obj) == obj.label = ""

\* obj is the very object update_cache stored, so it is read from the cache
WGate ==
  /\ wpc = "gate"
  /\ LET obj == CacheGet(local_cache, wKey)
     IN  IF GateSkips(obj)
         THEN WatcherIdle
         ELSE /\ wpc' = IF NeedsLabel(obj) THEN "label" ELSE "check"
              /\ UNCHANGED <<wKey, wLimit, wRunning, wPauseErr, wNew>>
  /\ UNCHANGED <<cluster, events, local_cache, faults, pausedInPlace,
                 resource_version, wData, wLast, mvars, envvars, xvars>>

\* add_managed_label: failures are swallowed
WLabel ==
  /\ wpc = "label"
  /\ \E outcome \in CallOutcomes(wKey) :
       /\ IF outcome = "ok"
          THEN Patched(wKey, [ApiGet(wKey) EXCEPT !.label = MANAGED_LABEL_VAL])
          ELSE UNCHANGED <<cluster, events>>
       /\ faults' = Spent(outcome, wKey)
  /\ wpc' = "check"
  /\ UNCHANGED <<local_cache, pausedInPlace, resource_version, wData, wKey, wLimit,
                 wRunning, wPauseErr, wNew, wLast, mvars, envvars, xvars>>

\* limit = get_limit_from_crd(); running, _ = get_queue_status_from_cache();
\* if running > limit
WCheck ==
  /\ wpc = "check"
  /\ \E read \in LimitReads :
       LET lim == get_limit_from_crd(read)
           r == RunningCnt(local_cache)
       IN  /\ faults' = IF read = "ok" THEN faults ELSE faults + 1
           /\ IF GateFires(r, lim)
              THEN /\ wpc' = "pause"
                   /\ wLimit' = lim
                   /\ wRunning' = r
                   /\ UNCHANGED <<wKey, wPauseErr, wNew>>
              ELSE WatcherIdle
  /\ UNCHANGED <<cluster, events, local_cache, pausedInPlace, resource_version,
                 wData, wLast, mvars, envvars, xvars>>

\* not success, for each way patch_status can end
PauseEscalates(outcome) == outcome # "ok"

\* success = patch_status(name, ns, 'PipelineRunPending')
WPause ==
  /\ wpc = "pause"
  /\ \E outcome \in PauseOutcomes(wKey) :
       /\ faults' = Spent(outcome, wKey)
       /\ IF outcome = "ok"
          THEN /\ Patched(wKey, [ApiGet(wKey) EXCEPT !.specStatus = Pending])
               /\ pausedInPlace' = pausedInPlace \cup {wKey}
          ELSE UNCHANGED <<cluster, events, pausedInPlace>>
       /\ IF PauseEscalates(outcome)
          THEN /\ wpc' = "delete"
               /\ wPauseErr' = outcome
               /\ UNCHANGED <<wKey, wLimit, wRunning, wNew>>
          ELSE WatcherIdle
  /\ UNCHANGED <<local_cache, resource_version, wData, wLast, mvars, envvars, xvars>>

\* mutant: a failed delete does not end recreate_as_pending
DeleteAborts_Never(outcome) == FALSE

\* mutant: the test of the delete's result is inverted
DeleteAborts_Inverted(outcome) == outcome = "ok"

\* except: return
DeleteAborts(outcome) == outcome # "ok"

\* recreate_as_pending, the delete: any failure returns
WDelete ==
  /\ wpc = "delete"
  /\ \E outcome \in CallOutcomes(wKey) :
       /\ faults' = Spent(outcome, wKey)
       /\ IF outcome = "ok"
          THEN /\ cluster' = cluster \ {ApiGet(wKey)}
               /\ events' = Append(events, Event("DELETED", ApiGet(wKey)))
          ELSE UNCHANGED <<cluster, events>>
       /\ IF DeleteAborts(outcome)
          THEN /\ WatcherIdle
               /\ wLast' = "delete_failed"
          ELSE /\ wpc' = "copy"
               /\ UNCHANGED <<wKey, wLimit, wRunning, wPauseErr, wNew, wLast>>
  /\ UNCHANGED <<local_cache, pausedInPlace, resource_version, wData, mvars, envvars, xvars>>

\* recreate_as_pending, lines 163-176: the deepcopy of the store's entry (read
\* without the lock) and the new name, made of the clock as it is now
WCopy ==
  /\ wpc = "copy"
  /\ wNew' = RecreateObj(CacheGet(local_cache, wKey), now)
  /\ wpc' = "create"
  /\ UNCHANGED <<cluster, events, local_cache, faults, pausedInPlace, resource_version,
                 wData, wKey, wLimit, wRunning, wPauseErr, wLast, mvars, envvars, xvars>>

\* recreate_as_pending, the create: the server stamps the object with the clock
\* as it is when the request is served; a failure is logged
WCreate ==
  /\ wpc = "create"
  /\ LET new == Served(wNew, now)
     IN  \E outcome \in IF ApiHas(KeyOf(new)) THEN {"error"}
                        ELSE {"ok"} \cup (IF faults < MaxFault THEN {"error"} ELSE {}) :
           /\ faults' = IF outcome # "ok" /\ ~ApiHas(KeyOf(new)) THEN faults + 1 ELSE faults
           /\ IF outcome = "ok"
              THEN /\ cluster' = cluster \cup {new}
                   /\ events' = Append(events, Event("ADDED", new))
                   /\ wLast' = "created"
              ELSE /\ UNCHANGED <<cluster, events>>
                   /\ wLast' = "create_failed"
  /\ WatcherIdle
  /\ UNCHANGED <<local_cache, pausedInPlace, resource_version, wData, mvars, envvars, xvars>>

\* the stream raises ApiException with status 410: resource_version = None
WatchExpired ==
  /\ wpc = "stream"
  /\ faults < MaxFault
  /\ faults' = faults + 1
  /\ resource_version' = "None"
  /\ wpc' = "list"
  /\ wLast' = "expired"
  /\ UNCHANGED <<cluster, events, local_cache, pausedInPlace, wData, wKey,
                 wLimit, wRunning, wPauseErr, wNew, mvars, envvars, xvars>>

\* the stream raises another ApiException: logged, the watch is opened again
WatchApiError ==
  /\ wpc = "stream"
  /\ faults < MaxFault
  /\ faults' = faults + 1
  /\ wLast' = "api_error"
  /\ UNCHANGED <<cluster, events, local_cache, pausedInPlace, resource_version, wpc,
                 wData, wKey, wLimit, wRunning, wPauseErr, wNew, mvars, envvars, xvars>>

\* the stream raises any other exception: resource_version = None
WatchException ==
  /\ wpc = "stream"
  /\ faults < MaxFault
  /\ faults' = faults + 1
  /\ resource_version' = "None"
  /\ wpc' = "list"
  /\ wLast' = "exception"
  /\ UNCHANGED <<cluster, events, local_cache, pausedInPlace, wData, wKey,
                 wLimit, wRunning, wPauseErr, wNew, mvars, envvars, xvars>>

\* the stream ends without an exception: the while loop opens the watch again
WatchClosed ==
  /\ wpc = "stream"
  /\ faults < MaxFault
  /\ faults' = faults + 1
  /\ wLast' = "closed"
  /\ UNCHANGED <<cluster, events, local_cache, pausedInPlace, resource_version, wpc,
                 wData, wKey, wLimit, wRunning, wPauseErr, wNew, mvars, envvars, xvars>>

\* ---------------------------------------------------------------- manager
ManagerIdle ==
  /\ mpc' = "idle"
  /\ mLimit' = 0
  /\ running' = 0
  /\ slots' = 0
  /\ to_run' = <<>>
  /\ tick' = NoTick

\* limit, running, pending and the test that opens the scheduling block
MTick ==
  /\ mpc = "idle"
  /\ \E read \in LimitReads :
       LET lim == get_limit_from_crd(read)
           r == RunningCnt(local_cache)
           pending == PendingList(local_cache)
       IN  /\ faults' = IF read = "ok" THEN faults ELSE faults + 1
           /\ IF ManagerAdmits(r, lim, pending)
              THEN /\ mpc' = "patch"
                   /\ mLimit' = lim
                   /\ running' = r
                   /\ slots' = lim - r
                   /\ to_run' = ToRun(pending, lim - r)
                   /\ tick' = [r0 |-> r, ok |-> 0, tried |-> 0, lastCt |-> -1,
                               queued |-> Len(pending)]
              ELSE ManagerIdle
  /\ UNCHANGED <<cluster, events, local_cache, pausedInPlace, wvars, maxAdmitCt,
                 admitted, envvars, xvars>>

\* if patch_status(t_name, t_ns, None): running += 1; slots -= 1
MPatch ==
  /\ mpc = "patch"
  /\ LET target == Head(to_run)
         key == KeyOf(target)
     IN  \E outcome \in CallOutcomes(key) :
           /\ faults' = Spent(outcome, key)
           /\ IF outcome = "ok"
              THEN /\ Patched(key, [ApiGet(key) EXCEPT !.specStatus = "None"])
                   /\ running' = running + 1
                   /\ slots' = slots - 1
                   /\ mpc' = "project"
                   /\ tick' = [tick EXCEPT !.ok = @ + 1, !.tried = @ + 1,
                                           !.lastCt = target.ct]
                   /\ maxAdmitCt' = IF target.ct > maxAdmitCt THEN target.ct
                                    ELSE maxAdmitCt
                   /\ UNCHANGED <<mLimit, to_run>>
              ELSE /\ UNCHANGED <<cluster, events, maxAdmitCt>>
                   /\ IF Tail(to_run) = <<>>
                      THEN ManagerIdle
                      ELSE /\ to_run' = Tail(to_run)
                           /\ tick' = [tick EXCEPT !.tried = @ + 1,
                                                   !.lastCt = target.ct]
                           /\ UNCHANGED <<mpc, mLimit, running, slots>>
  /\ UNCHANGED <<local_cache, pausedInPlace, wvars, admitted, envvars, xvars>>

\* if key in local_cache: local_cache[key]['spec']['status'] = None
Projected(c, key) ==
  IF CacheHas(c, key)
  THEN [c EXCEPT ![CacheIndex(c, key)].specStatus = "None"]
  ELSE c

\* the projection of the current target and the move to the next one
Projects ==
  /\ LET key == KeyOf(Head(to_run))
     IN  /\ local_cache' = Projected(local_cache, key)
         /\ admitted' = IF CacheHas(local_cache, key) THEN admitted \cup {key}
                        ELSE admitted
  /\ IF Tail(to_run) = <<>>
     THEN ManagerIdle
     ELSE /\ to_run' = Tail(to_run)
          /\ mpc' = "patch"
          /\ UNCHANGED <<mLimit, running, slots, tick>>

MProject ==
  /\ mpc = "project"
  /\ Projects
  /\ UNCHANGED <<cluster, events, faults, pausedInPlace, wvars, maxAdmitCt, envvars, xvars>>

\* the entry's spec has no status key, so the projection adds one
ProjectionAddsKey(c, key) == CacheHas(c, key) /\ CacheGet(c, key).specStatus = "None"

\* the data race of the deepcopy at line 163 with the projection at 220-221 on
\* the same entry: the projection adds spec.status while deepcopy iterates the
\* entry, deepcopy raises RuntimeError, which recreate_as_pending does not
\* catch; the handler at 310-313 sets resource_version = None, and the run that
\* was deleted is not created
WCopyRaises ==
  /\ wpc = "copy"
  /\ mpc = "project"
  /\ KeyOf(Head(to_run)) = wKey
  /\ ProjectionAddsKey(local_cache, wKey)
  /\ Projects
  /\ resource_version' = "None"
  /\ wpc' = "list"
  /\ wKey' = <<>>
  /\ wLimit' = 0
  /\ wRunning' = 0
  /\ wPauseErr' = "none"
  /\ wLast' = "copy_raised"
  /\ UNCHANGED <<cluster, events, faults, pausedInPlace, wData, wNew, maxAdmitCt,
                 envvars, xvars>>

\* ------------------------------------------------------------------- Next
\* the runs the orchestrator holds as Running
ClusterRunning(S) == {o \in S : IsRunning(o)}

Next ==
  \/ EnvSubmit
  \/ EnvFinish
  \/ EnvTouch
  \/ ClockTick
  \/ WList
  \/ WRebuild
  \/ WEvent
  \/ WGate
  \/ WLabel
  \/ WCheck
  \/ WPause
  \/ WDelete
  \/ WCopy
  \/ WCopyRaises
  \/ WCreate
  \/ WatchExpired
  \/ WatchApiError
  \/ WatchException
  \/ WatchClosed
  \/ MTick
  \/ MPatch
  \/ MProject

Spec == Init /\ [][Next]_vars

\* the program on a watch stream that may repeat an ADDED event
NextReplay == Next \/ EnvReplay

ReplaySpec == Init /\ [][NextReplay]_vars

\* ------------------------------------------------ recreate_as_pending alone
\* the runs watcher_loop may hand to recreate_as_pending: in a managed
\* namespace, not finished, not paused
Stage2Originals ==
  {o \in [ns : Namespaces, name : BaseNames, ct : {0}, specStatus : {"None"},
          label : {"", MANAGED_LABEL_VAL}, conditions : {<<>>, <<"Unknown">>}] :
     is_target_namespace(o.ns)}

\* the call recreate_as_pending(obj) at line 302: the pause patch has just
\* failed; obj is the store's entry, the run itself may be gone already, and
\* copies made by earlier calls may exist
Stage2Init ==
  /\ \E obj \in Stage2Originals :
       /\ local_cache = <<obj>>
       /\ wKey = KeyOf(obj)
       /\ \E there \in SUBSET {obj},
             copies \in SUBSET {Served(RecreateObj(obj, t), t) : t \in 0..MaxTime} :
            /\ cluster = there \cup copies
            /\ wPauseErr \in (IF there = {} THEN {"error"} ELSE {"error", "rejected"})
  /\ limit = 0
  /\ wLimit = 0
  /\ wRunning = 1
  /\ now \in 0..MaxTime
  /\ events = <<>>
  /\ resource_version = "set"
  /\ wpc = "delete"
  /\ wData = <<>>
  /\ wNew = NoCopy
  /\ mpc = "idle"
  /\ mLimit = 0
  /\ running = 0
  /\ slots = 0
  /\ to_run = <<>>
  /\ submitted = 1
  /\ faults = 0
  /\ tick = NoTick
  /\ maxAdmitCt = -1
  /\ admitted = {}
  /\ pausedInPlace = {}
  /\ wLast = "none"
  /\ replays = 0
  /\ rpc = "off"
  /\ original_obj = NoObject
  /\ new_obj = NoObject

Stage2Next ==
  \/ WDelete
  \/ WCopy
  \/ WCreate
  \/ ClockTick

Stage2Spec == Stage2Init /\ [][Stage2Next]_vars

\* ------------------------------------------ the copy of recreate_as_pending
\* a name of n characters: "bcdef..."
NameOfLen(n) == [i \in 1..n |-> 97 + (i % 26)]

\* names around the cut at 40 characters
ShapeNames == {NameOfLen(n) : n \in {1, NameCut - 1, NameCut, NameCut + 1, NameCut + 20}}

\* values of int(time.time())
ShapeTimes == {0, 9, 10, 1700000000, 2147483647}

ShapeLabels ==
  {EmptyDict,
   [x \in {"app"} |-> "ci"],
   [x \in {MANAGED_LABEL_KEY} |-> "no"],
   [x \in {"app", MANAGED_LABEL_KEY} |-> IF x = "app" THEN "ci" ELSE MANAGED_LABEL_VAL]}

ShapeSpecs ==
  {EmptyDict,
   [x \in {"status"} |-> "Cancelled"],
   [x \in {"pipelineRef"} |-> "build"],
   [x \in {"pipelineRef", "status"} |-> IF x = "status" THEN Pending ELSE "build"],
   [x \in {"pipelineRef", "timeouts"} |-> IF x = "timeouts" THEN "1h" ELSE "build"]}

\* the metadata of an original: namespace and name, labels or not, and any of
\* the server's fields and annotations
ShapeMetadata ==
  {LET base == [x \in {"namespace", "name"} \cup given |->
                  IF x = "namespace" THEN ns
                  ELSE IF x = "name" THEN name
                  ELSE "set"]
   IN  IF hasLabels THEN SetKey(base, "labels", labels) ELSE base :
     ns \in Namespaces, name \in ShapeNames,
     given \in SUBSET (StrippedKeys \cup {"annotations"}),
     hasLabels \in BOOLEAN, labels \in ShapeLabels}

\* the objects recreate_as_pending is tried on
ShapeOriginals ==
  {LET o1 == [x \in {"metadata"} |-> metadata]
       o2 == IF hasSpec THEN SetKey(o1, "spec", spec) ELSE o1
   IN  IF hasStatus THEN SetKey(o2, "status", "Running") ELSE o2 :
     metadata \in ShapeMetadata, hasSpec \in BOOLEAN, spec \in ShapeSpecs,
     hasStatus \in BOOLEAN}

ShapeInit ==
  /\ rpc = "copy"
  /\ original_obj \in ShapeOriginals
  /\ new_obj = NoObject
  /\ now \in ShapeTimes
  /\ cluster = {}
  /\ events = <<>>
  /\ limit = 0
  /\ local_cache = <<>>
  /\ resource_version = "set"
  /\ wpc = "create"
  /\ wData = <<>>
  /\ wKey = <<>>
  /\ wLimit = 0
  /\ wRunning = 0
  /\ mpc = "idle"
  /\ mLimit = 0
  /\ running = 0
  /\ slots = 0
  /\ to_run = <<>>
  /\ submitted = 0
  /\ faults = 0
  /\ wPauseErr = "none"
  /\ wNew = NoCopy
  /\ tick = NoTick
  /\ maxAdmitCt = -1
  /\ admitted = {}
  /\ pausedInPlace = {}
  /\ wLast = "none"
  /\ replays = 0

\* lines 163-176: the deepcopy, the clean-up, the pending status, the label
\* and the new name
RecreateCopy ==
  /\ rpc = "copy"
  /\ new_obj' = NewObj(original_obj, now)
  /\ rpc' = "create"
  /\ UNCHANGED <<original_obj, replays, cluster, events, local_cache, faults,
                 pausedInPlace, wvars, mvars, envvars>>

ShapeNext == RecreateCopy

ShapeSpec == ShapeInit /\ [][ShapeNext]_vars

\* ================================================================= claims
\* the Running runs of a set or sequence of objects, counted
ClusterRunningCnt == Cardinality(ClusterRunning(cluster))

\* every event delivered and handled, the manager between ticks with nothing to admit
Quiescent ==
  /\ events = <<>>
  /\ wpc = "stream"
  /\ mpc = "idle"
  /\ ~ManagerAdmits(RunningCnt(local_cache), limit, PendingList(local_cache))

\* C1: in every quiescent state the number of Running runs, in the store and in
\* the cluster, is at most the limit (cold starts included).
C1_CapAtQuiescence ==
  Quiescent => RunningCnt(local_cache) <= limit /\ ClusterRunningCnt <= limit

\* the step in which the manager's admit patch succeeds
AdmitStep == mpc = "patch" /\ mpc' = "project"

\* C2: whenever the manager admits a run, its creationTimestamp is at least that
\* of every run admitted before it, in this tick or an earlier one.
C2_GlobalFifo == [][AdmitStep => Head(to_run).ct >= maxAdmitCt]_vars

\* C2 (amended): within one tick the admit patches are issued in non-decreasing
\* creationTimestamp order: the run about to be patched is no older than the run
\* patched before it in the same tick, whether that patch succeeded or failed.
C2_TickOrder == mpc = "patch" => tick.lastCt <= Head(to_run).ct

\* C2 witness: in one tick the patch of an older queued run failed and the patch
\* of a younger one succeeded.
C2_Witness ==
  /\ mpc = "project"
  /\ tick.tried = 2
  /\ tick.ok = 1
  /\ \E o \in cluster : IsQueued(o) /\ o.ct < Head(to_run).ct

\* C3: every run the manager patches or is about to patch in this tick was, in
\* the tick's store snapshot, in a managed namespace, not finished, paused and
\* labelled queue.tekton.dev/managed=yes.
C3_OnlyLabelledAdmitted ==
  mpc \in {"patch", "project"} =>
    \A i \in 1..Len(to_run) :
      /\ is_target_namespace(to_run[i].ns)
      /\ ~IsTerminal(to_run[i])
      /\ to_run[i].specStatus = Pending
      /\ to_run[i].label = "yes"

\* C3 witness: the manager has admitted a run while the store holds a paused run
\* of a managed namespace without the label.
C3_Witness ==
  /\ mpc = "project"
  /\ \E i \in 1..Len(local_cache) :
       /\ IsCounted(local_cache[i])
       /\ local_cache[i].specStatus = Pending
       /\ local_cache[i].label = ""

\* C4: Stage 2 (delete, create) is entered only after the pause patch was
\* refused as a rejected state transition, never after another error.
C4_OnlyRejectedEscalates ==
  wpc \in {"delete", "copy", "create"} => wPauseErr = "rejected"

\* the step in which the watcher pauses or deletes the object o
Revokes(o) ==
  /\ wKey = KeyOf(o)
  /\ \/ wpc = "pause" /\ wpc' = "stream" /\ [o EXCEPT !.specStatus = Pending] \in cluster'
     \/ wpc = "delete" /\ wpc' = "copy"

\* C5: a run that is Running while the cluster holds at most limit Running runs
\* (none of them finished) is not paused and not deleted by the controller.
C5_NoPreemption ==
  [][\A o \in cluster :
       (/\ IsRunning(o)
        /\ ClusterRunningCnt <= limit
        /\ \A p \in cluster : ~IsTerminal(p))
       => ~Revokes(o)]_vars

\* C6: the watcher starts enforcement on an event's object only when the object
\* is in a managed namespace, not finished, not paused, and the Running count of
\* the store is strictly greater than the limit it read; the manager starts
\* admitting only when the store's Running count is strictly less than the limit
\* it read. So with Running = limit neither acts.
C6_GateBoundary ==
  /\ [][(wpc = "check" /\ wpc' = "pause") =>
          /\ is_target_namespace(CacheGet(local_cache, wKey).ns)
          /\ ~IsTerminal(CacheGet(local_cache, wKey))
          /\ CacheGet(local_cache, wKey).specStatus # Pending
          /\ wRunning' = RunningCnt(local_cache)
          /\ wRunning' > wLimit'
          /\ wLimit' \in {limit, DEFAULT_LIMIT}]_vars
  /\ [][(mpc = "idle" /\ mpc' = "patch") =>
          /\ running' = RunningCnt(local_cache)
          /\ running' < mLimit'
          /\ mLimit' \in {limit, DEFAULT_LIMIT}]_vars
  /\ [](wpc \in {"pause", "delete", "copy", "create"} => wRunning > wLimit)
  /\ [](wpc \in {"delete", "copy", "create"} => wPauseErr # "none")

\* C6 witness: the gate is evaluated for a run with the store at the boundary,
\* Running = limit > 0.
C6_Witness ==
  /\ wpc = "check"
  /\ limit > 0
  /\ RunningCnt(local_cache) = limit

\* C7: a patch is issued only while (Running at the start of the tick + the
\* tick's successful admissions) < limit; so a tick admits at most limit - r
\* runs and none when r >= limit.
C7_TickBound ==
  /\ mpc = "patch" => tick.r0 + tick.ok < mLimit
  /\ mpc \in {"patch", "project"} =>
       /\ running = tick.r0 + tick.ok
       /\ tick.r0 < mLimit
       /\ tick.ok <= mLimit - tick.r0
       /\ tick.tried <= mLimit - tick.r0

\* C7 witness: a tick has filled every free slot and a queued run of its
\* snapshot is left over.
C7_Witness ==
  /\ mpc = "project"
  /\ tick.ok = mLimit - tick.r0
  /\ Len(PendingList(local_cache)) > 1

\* C8: the manager issues no admit patch for a run it has already admitted and
\* projected, and which the orchestrator still holds admitted.
C8_NoDuplicateAdmit ==
  mpc = "patch" =>
    LET key == KeyOf(Head(to_run))
    IN  ~(key \in admitted /\ ApiHas(key) /\ ApiGet(key).specStatus # Pending)

\* the scheduling the loops and the orchestrator guarantee: each loop keeps
\* taking its next step, events are delivered, running runs finish. Only steps
\* without a new disturbance are owed: no failure is ever forced.
Fairness ==
  /\ WF_vars(WList /\ faults' = faults)
  /\ WF_vars(WRebuild /\ faults' = faults)
  /\ WF_vars(WEvent /\ faults' = faults)
  /\ WF_vars(WGate /\ faults' = faults)
  /\ WF_vars(WLabel /\ faults' = faults)
  /\ WF_vars(WCheck /\ faults' = faults)
  /\ WF_vars(WPause /\ faults' = faults)
  /\ WF_vars(WDelete /\ faults' = faults)
  /\ WF_vars(WCopy /\ faults' = faults)
  /\ WF_vars(WCreate /\ faults' = faults)
  /\ WF_vars(MTick /\ faults' = faults)
  /\ WF_vars(MPatch /\ faults' = faults)
  /\ WF_vars(MProject /\ faults' = faults)
  /\ WF_vars(EnvFinish)

LiveSpec == Init /\ [][Next]_vars /\ Fairness

\* the user-given keys of the managed namespace
ManagedKeys == {MakeKey(ns, n) : ns \in {m \in Namespaces : is_target_namespace(m)},
                                 n \in BaseNames}

\* C9: with a limit of at least 1 and no call ever failing, a run that the
\* orchestrator holds paused and labelled in a managed namespace is eventually
\* admitted (its spec.status is cleared).
C9_EventualAdmission ==
  (limit >= 1 /\ [](faults = 0)) =>
    \A k \in ManagedKeys :
      (ApiHas(k) /\ IsQueued(ApiGet(k))) ~> (ApiHas(k) /\ ApiGet(k).specStatus # Pending)

\* C10: once the events of a run that Stage 1 paused have been handled, and while
\* the manager has not admitted it, the store holds it paused and labelled.
C10_PausedInPlaceQueued ==
  \A k \in pausedInPlace \ admitted :
    (/\ events = <<>>
     /\ wpc = "stream"
     /\ ApiHas(k)
     /\ ApiGet(k).specStatus = Pending)
    => /\ CacheHas(local_cache, k)
       /\ CacheGet(local_cache, k).specStatus = Pending
       /\ CacheGet(local_cache, k).label = "yes"

\* the characters of a decimal number
IsDigits(s) == s # <<>> /\ \A i \in 1..Len(s) : s[i] \in 48..57

\* the objects recreate_as_pending made for the run ns/name: same namespace, and
\* the name is name[:40], "-q" and a decimal number
CopiesOf(ns, name) ==
  LET stem == Take(name, NameCut) \o <<45, 113>>
  IN  {o \in cluster :
         /\ o.ns = ns
         /\ Len(o.name) > Len(stem)
         /\ SubSeq(o.name, 1, Len(stem)) = stem
         /\ IsDigits(SubSeq(o.name, Len(stem) + 1, Len(o.name)))}

\* C11: whatever ADDED event the stream repeats, a run that was submitted once
\* has at most one re-created copy: handling the repeated event never creates a
\* second one.
C11_ReplayIdempotent ==
  submitted <= 1 =>
    \A k \in Submissions : Cardinality(CopiesOf(k[1], k[2])) <= 1

\* C11 witness: the repeated ADDED event of a run is being enforced (the store
\* holds the run as first announced, unlabelled) after the first enforcement
\* deleted the run and created its copy; the pause failed and the delete is next.
C11_Witness ==
  /\ replays = 1
  /\ submitted = 1
  /\ wpc = "delete"
  /\ ~ApiHas(wKey)
  /\ CacheGet(local_cache, wKey).label = ""
  /\ \E k \in Submissions : MakeKey(k[1], k[2]) = wKey /\ CopiesOf(k[1], k[2]) # {}

\* the positions of the watcher between an event's gate and the end of Stage 2
Enforcing == {"gate", "label", "check", "pause", "delete", "copy", "create"}

\* C12: a (re-)list only rebuilds the store. The list call changes neither the
\* cluster nor the store; the rebuild replaces the store by exactly the listed
\* items in one step, changes nothing in the cluster, emits no event and leaves
\* the watcher waiting on the stream with no run under enforcement, whatever the
\* Running count of the rebuilt store is.
C12_ListNoEnforcement ==
  /\ [][(wpc = "list" /\ wpc' # "list") =>
          /\ wpc' = "rebuild"
          /\ cluster' = cluster
          /\ local_cache' = local_cache
          /\ wKey' = <<>>]_vars
  /\ [][(wpc = "rebuild" /\ wpc' # "rebuild") =>
          /\ wpc' = "stream"
          /\ Len(local_cache') = Len(wData)
          /\ \A i \in 1..Len(wData) :
               /\ CacheHas(local_cache', KeyOf(wData[i]))
               /\ CacheGet(local_cache', KeyOf(wData[i])) = wData[i]
          /\ cluster' = cluster
          /\ events' = events
          /\ wKey' = <<>>]_vars
  /\ [](wpc \in {"list", "rebuild"} => wKey = <<>>)
  /\ [](wpc \in Enforcing => wKey # <<>> /\ wLast = "none")

\* C12 witness: after an expired watch the store was rebuilt from a list with
\* more Running runs than the limit, and the watcher waits on the stream with
\* nothing to handle.
C12_Witness ==
  /\ wpc = "stream"
  /\ wLast = "expired"
  /\ events = <<>>
  /\ local_cache = ListItems(cluster)
  /\ RunningCnt(local_cache) > limit
  /\ pausedInPlace = {}

\* the step in which the watcher handles the event at the head of the stream
HandlesEvent == wpc = "stream" /\ events # <<>> /\ events' = Tail(events)

\* C13: handling a DELETED event leaves the event's key absent from the store,
\* and a key that is absent enters the store only when the watcher handles an
\* ADDED or MODIFIED event for it or rebuilds the store from a list holding it;
\* no step of the manager (its projection included) inserts a key.
C13_DeletedStaysAbsent ==
  /\ [][(HandlesEvent /\ Head(events).type = "DELETED") =>
          ~CacheHas(local_cache', KeyOf(Head(events).object))]_vars
  /\ [][\A i \in 1..Len(local_cache') :
          LET k == KeyOf(local_cache'[i])
          IN  ~CacheHas(local_cache, k) =>
                \/ /\ HandlesEvent
                   /\ Head(events).type \in {"ADDED", "MODIFIED"}
                   /\ KeyOf(Head(events).object) = k
                \/ /\ wpc = "rebuild"
                   /\ wpc' = "stream"
                   /\ \E j \in 1..Len(wData) : KeyOf(wData[j]) = k]_vars

\* C13 witness: the manager has admitted a run and is about to project it, and
\* meanwhile the run was deleted and the watcher has removed its key from the
\* store on the DELETED event.
C13_Witness ==
  /\ mpc = "project"
  /\ ~CacheHas(local_cache, KeyOf(Head(to_run)))
  /\ ~ApiHas(KeyOf(Head(to_run)))
  /\ wpc = "stream"
  /\ resource_version = "set"

\* C14: recreate_as_pending ends at a failed delete: the watcher is back on the
\* stream, the cluster is as it was and nothing was emitted. The copy is built
\* only after the step of the delete stage that removes the run, and building
\* it issues no call; the create stage is entered only from the copy, and it
\* is left in one step, back to the stream, with at most one object added,
\* whether the create succeeded or failed.
C14_DeleteFailureAborts ==
  /\ [][(wpc = "delete" /\ wpc' # "delete") =>
          IF ApiHas(wKey) /\ cluster' = cluster \ {ApiGet(wKey)}
          THEN wpc' = "copy" /\ wKey' = wKey
          ELSE wpc' = "stream" /\ cluster' = cluster /\ events' = events]_vars
  /\ [][(wpc # "copy" /\ wpc' = "copy") =>
          /\ wpc = "delete"
          /\ ApiHas(wKey)
          /\ \A o \in cluster' : KeyOf(o) # wKey]_vars
  /\ [][(wpc = "copy" /\ wpc' # "copy") =>
          /\ wpc' \in {"create", "list"}
          /\ cluster' = cluster
          /\ events' = events]_vars
  /\ [][(wpc # "create" /\ wpc' = "create") => wpc = "copy"]_vars
  /\ [][(wpc = "create" /\ wpc' # "create") =>
          /\ wpc' = "stream"
          /\ cluster \subseteq cluster'
          /\ Cardinality(cluster' \ cluster) <= 1
          /\ (cluster' = cluster) = (wLast' = "create_failed")]_vars
  /\ [](wLast = "delete_failed" => wpc = "stream")

\* C14 witness: the delete of an existing over-limit run has failed: the run is
\* still there, unpaused, no copy of it exists, and the watcher is back on the
\* stream.
C14_Witness ==
  /\ wLast = "delete_failed"
  /\ wpc = "stream"
  /\ faults = 1
  /\ \E o \in cluster :
       /\ CacheHas(local_cache, KeyOf(o))
       /\ o.specStatus # Pending
       /\ CopiesOf(o.ns, o.name) = {}

\* the number a string of decimal digits stands for
RECURSIVE DecimalValue(_)
DecimalValue(s) ==
  IF s = <<>> THEN 0 ELSE 10 * DecimalValue(SubSeq(s, 1, Len(s) - 1)) + (s[Len(s)] - 48)

\* d[key] when the key is there, else the empty dict: d.get(key, {})
GetDict(d, key) == IF HasKey(d, key) THEN d[key] ELSE EmptyDict

\* C15: the object recreate_as_pending submits has the original's namespace; its
\* spec is the original's spec with status = PipelineRunPending; its labels are
\* the original's labels with queue.tekton.dev/managed = yes; it has no status
\* and none of resourceVersion, uid, creationTimestamp, ownerReferences and
\* generation; its name is the first 40 characters of the original's name, then
\* "-q", then the seconds of the clock in decimal, at most 63 characters long
\* when the number has at most 21 digits. The original is left as it was.
C15_CopyShape ==
  /\ [](rpc = "create" =>
         LET old == original_obj
             name == old.metadata.name
             stem == Take(name, NameCut)
             newName == new_obj.metadata.name
             number == SubSeq(newName, Len(stem) + 3, Len(newName))
             oldSpec == GetDict(old, "spec")
             oldLabels == GetDict(old.metadata, "labels")
         IN  /\ new_obj.metadata.namespace = old.metadata.namespace
             /\ DOMAIN new_obj.spec = DOMAIN oldSpec \cup {"status"}
             /\ \A f \in DOMAIN oldSpec \ {"status"} : new_obj.spec[f] = oldSpec[f]
             /\ new_obj.spec.status = Pending
             /\ DOMAIN new_obj.metadata.labels = DOMAIN oldLabels \cup {MANAGED_LABEL_KEY}
             /\ \A l \in DOMAIN oldLabels \ {MANAGED_LABEL_KEY} :
                  new_obj.metadata.labels[l] = oldLabels[l]
             /\ new_obj.metadata.labels[MANAGED_LABEL_KEY] = MANAGED_LABEL_VAL
             /\ ~HasKey(new_obj, "status")
             /\ DOMAIN new_obj.metadata \cap StrippedKeys = {}
             /\ Len(stem) = Min(Len(name), 40)
             /\ SubSeq(newName, 1, Len(stem)) = stem
             /\ SubSeq(newName, Len(stem) + 1, Len(stem) + 2) = <<45, 113>>
             /\ IsDigits(number)
             /\ DecimalValue(number) = now
             /\ (Len(number) = 1 \/ number[1] # 48)
             /\ (Len(number) <= 21 => Len(newName) <= 63))
  /\ [][original_obj' = original_obj]_vars

\* C15 witness: the copy was made of an object with a name longer than 40
\* characters, a status subtree, all the server's metadata, a spec with a field
\* besides status, and a managed label that was not "yes".
C15_Witness ==
  /\ rpc = "create"
  /\ Len(original_obj.metadata.name) > 40
  /\ HasKey(original_obj, "status")
  /\ StrippedKeys \subseteq DOMAIN original_obj.metadata
  /\ HasKey(original_obj, "spec")
  /\ DOMAIN original_obj.spec = {"pipelineRef", "status"}
  /\ HasKey(original_obj.metadata, "labels")
  /\ DOMAIN original_obj.metadata.labels = {MANAGED_LABEL_KEY}
  /\ now > 9

\* nothing is under way for key: no event for it is waiting, the watcher is on
\* the stream, and the manager is not between its patch and its projection
Settled(key) ==
  /\ \A i \in 1..Len(events) : KeyOf(events[i].object) # key
  /\ wpc = "stream"
  /\ ~(mpc = "project" /\ KeyOf(Head(to_run)) = key)

\* C16: once every event for a run has been handled and the manager's
\* projection for it has been applied, the store's spec.status of the run is
\* the orchestrator's.
C16_StoreConverges ==
  \A i \in 1..Len(local_cache) :
    LET key == KeyOf(local_cache[i])
    IN  (ApiHas(key) /\ Settled(key)) =>
          local_cache[i].specStatus = ApiGet(key).specStatus

\* the step that ends a tick in which the manager was admitting: after the
\* failed patch of the last target, or after the projection of the last target
TickEnds == mpc \in {"patch", "project"} /\ mpc' = "idle"

\* C17: a tick ends only when running has reached the limit the tick read or
\* every queued run of the tick's snapshot has been tried; so after a failed
\* patch no slot stays unused while an untried queued run remains.
C17_TickUsesSlots ==
  [][TickEnds =>
       LET tried == IF mpc = "patch" THEN tick.tried + 1 ELSE tick.tried
       IN  running >= mLimit \/ tried >= tick.queued]_vars

\* C18: when a tick chooses its targets, every queued run of the store that has
\* the creationTimestamp of a target and a smaller key '<namespace>/<name>' is
\* itself a target, earlier in the order.
C18_TieBreakByKey ==
  [][(mpc = "idle" /\ mpc' = "patch") =>
       \A i \in 1..Len(to_run') : \A j \in 1..Len(local_cache) :
         (/\ IsQueued(local_cache[j])
          /\ local_cache[j].ct = to_run'[i].ct
          /\ LexLess(KeyOf(local_cache[j]), KeyOf(to_run'[i])))
         => \E h \in 1..(i - 1) : to_run'[h] = local_cache[j]]_vars

\* C19: after the stream ended by remote close or by an error other than
\* 'resource version expired', the watcher is back on the stream with the
\* resourceVersion it had; it lists (and then rebuilds the store) only on the
\* first connection and after 'resource version expired'.
C19_ResumeWithoutRelist ==
  /\ wLast \in {"closed", "api_error", "exception"} =>
       wpc = "stream" /\ resource_version = "set"
  /\ wpc \in {"list", "rebuild"} => wLast \in {"none", "expired"}

\* the objects of a set that lie outside the managed namespaces
Unmanaged(S) == {o \in S : ~is_target_namespace(o.ns)}

\* C20: an object outside the managed namespaces is stored by the watcher as
\* its events say, but it is neither Running nor Queued in the store's count,
\* it is never a target of the manager, the watcher's handling of its event
\* ends at the gate, and no step of the watcher or the manager changes, deletes
\* or creates such an object in the cluster.
C20_UnmanagedMirroredOnly ==
  /\ [](\A i \in 1..Len(local_cache) :
          ~is_target_namespace(local_cache[i].ns) =>
            ~IsRunning(local_cache[i]) /\ ~IsQueued(local_cache[i]))
  /\ [](\A i \in 1..Len(to_run) : is_target_namespace(to_run[i].ns))
  /\ [](wpc \in Enforcing \ {"gate"} =>
          is_target_namespace(CacheGet(local_cache, wKey).ns))
  /\ [][(HandlesEvent /\ ~is_target_namespace(Head(events).object.ns)) =>
          local_cache' = update_cache(local_cache, Head(events).type,
                                      Head(events).object)]_vars
  /\ [][(wpc' # wpc \/ mpc' # mpc) => Unmanaged(cluster') = Unmanaged(cluster)]_vars

\* C20 witness: the store mirrors a run of another namespace that is running
\* while the limit is 0, every event has been handled, and the run is as its
\* user made it.
C20_Witness ==
  /\ wpc = "stream"
  /\ events = <<>>
  /\ limit = 0
  /\ faults = 0
  /\ \E i \in 1..Len(local_cache) :
       /\ ~is_target_namespace(local_cache[i].ns)
       /\ ~IsTerminal(local_cache[i])
       /\ local_cache[i].specStatus # Pending
       /\ local_cache[i].label = ""
       /\ local_cache[i] \in cluster
  /\ resource_version = "set"
  /\ wLast = "none"

====
